---- MODULE Spec2Model ----
(***************************************************************************)
(* Model of the robo-advisor stub service (app/main.py) and its in-memory  *)
(* data provider (app/judge_client.py, stub mode).                          *)
(*                                                                         *)
(* Representation of the program's values                                  *)
(*   Optional[T]      a sequence of length 0 (None) or 1 (the value)       *)
(*   str of digits    a sequence of one-character strings (cursor)         *)
(*   close, prices    integers in units of 10^-5 currency units; an        *)
(*                    execPrice (rounded to 4 decimals) in units of 10^-4  *)
(*   adv              integer shares; 0 also stands for an absent adv      *)
(*                    (`pb.adv or 1_000_000` treats None and 0 alike)      *)
(*   score, weight    integers in hundredths (0.78 is 78)                  *)
(*   clientId         the natural n stands for the identifier "C00n"       *)
(*   time             whole seconds of the wall clock                      *)
(* Floating point is modelled by fixed-point arithmetic with the scale      *)
(* FpScale; every intermediate value stays below 2^31.  Where the exact     *)
(* value lies so close to a rounding tie that the float arithmetic of the   *)
(* code may fall on either side of it, the model admits both neighbours.    *)
(***************************************************************************)
EXTENDS Integers, Sequences, FiniteSets, TLC

VARIABLES
    STUB_CLIENTS,        \* judge_client.py:36  list of Client
    STUB_HOLDINGS,       \* judge_client.py:42  list of Holding
    STUB_INDEX,          \* judge_client.py:50  list of IndexConstituent
    STUB_PRICES,         \* judge_client.py:58  list of PriceBar
    STUB_SENTIMENT,      \* judge_client.py:66  list of SentimentRecord
    INGESTED_CHECKSUMS,  \* main.py:18  key -> datasetVersion
    REBALANCE_RESULTS,   \* main.py:19  key -> RebalanceResponse
    ACKED_REQUESTS,      \* main.py:20  requestId -> True (the set of its keys)
    now,                 \* the wall clock, in seconds
    threads,             \* the requests in progress, in the order of their arrival
    last,                \* the last request answered and its response
    served,              \* the number of requests accepted so far
    returned,            \* history: key -> the set of results returned under it
    writes,              \* history: key -> number of puts into REBALANCE_RESULTS (capped at 2)
    ackCount,            \* history: requestId -> number of acks answered and number
                         \* of them answered duplicate = false (each capped at 2)
    failed,              \* history: the keys under which a rebalance answered 503
    acknowledged,        \* history: the set of responses acknowledged
    calc,                \* the last evaluation of s_curve_price on its own
    page                 \* the last call of list_clients on its own

fixtures == <<STUB_CLIENTS, STUB_HOLDINGS, STUB_INDEX, STUB_PRICES, STUB_SENTIMENT>>
stores == <<INGESTED_CHECKSUMS, REBALANCE_RESULTS, ACKED_REQUESTS>>
history == <<returned, writes, ackCount, failed, acknowledged>>
vars == <<STUB_CLIENTS, STUB_HOLDINGS, STUB_INDEX, STUB_PRICES, STUB_SENTIMENT,
          INGESTED_CHECKSUMS, REBALANCE_RESULTS, ACKED_REQUESTS, now, threads, last,
          served, returned, writes, ackCount, failed, acknowledged, calc, page>>

----------------------------------------------------------------------------
(* Bounds of the model *)

\* The clock runs from 0 to MaxTime seconds.
MaxTime == 1

\* At most MaxRequests requests are accepted.
MaxRequests == 2

\* At most MaxRetryRequests requests are accepted when the service is offered few
\* different requests.
MaxRetryRequests == 3

\* At most MaxThreads requests are in progress at a time.
MaxThreads == 2

----------------------------------------------------------------------------
(* Python values *)

None == <<>>
Some(v) == <<v>>

\* Python truthiness of an Optional[str]: None and the empty
\* string are falsy.
Truthy(opt) == opt # None /\ opt[1] # ""

\* the same for an Optional[List]
TruthyList(opt) == opt # None /\ opt[1] # <<>>

----------------------------------------------------------------------------
(* Fixed-point arithmetic standing for the float arithmetic of s_curve_price *)

FpScale == 100000000
FpBase == 10000
\* sub-units of a close per unit of the fourth decimal
SubTick == 10
\* exp(-1) in units of 1/FpScale
ExpMinusOne == 36787944

\* floor(a*b/FpScale) for 0 <= a, b <= FpScale
MulFp(a, b) ==
    LET a1 == a \div FpBase
        a0 == a % FpBase
        b1 == b \div FpBase
        b0 == b % FpBase
    IN  a1 * b1 + ((a1 * b0 + a0 * b1 + ((a0 * b0) \div FpBase)) \div FpBase)

\* floor(r * 10^n / d) for 0 <= r < d, by long division
RECURSIVE DivFp(_, _, _)
DivFp(r, d, n) ==
    IF n = 0 THEN 0
    ELSE ((r * 10) \div d) * (10 ^ (n - 1)) + DivFp((r * 10) % d, d, n - 1)

\* the terms k, k+1, ... of the series of exp(-f), f in [0,1) scaled by FpScale
RECURSIVE ExpSeries(_, _, _)
ExpSeries(term, f, k) ==
    IF term = 0 \/ k > 14 THEN 0
    ELSE LET t == MulFp(term, f) \div k
         IN  (IF k % 2 = 1 THEN 0 - t ELSE t) + ExpSeries(t, f, k + 1)

RECURSIVE ExpPow(_, _)
ExpPow(u, n) == IF n = 0 THEN u ELSE ExpPow(MulFp(u, ExpMinusOne), n - 1)

\* np.exp(-(n + f)) for n a natural and f in [0,1), scaled by FpScale
ExpNeg(n, f) ==
    IF n >= 20 THEN 0 ELSE ExpPow(FpScale + ExpSeries(FpScale, f, 1), n)

\* main.py:48-49  impact = 1/(1 + exp(-k*(x-1))), x = |order_qty| / (0.1*max(adv,1)),
\* with k = 4.0 and half_adv = 0.1: k*(x-1) = (40*|order_qty| - 4*A) / A.
Impact(order_qty, adv) ==
    LET A == IF adv > 1 THEN adv ELSE 1
        q == IF order_qty < 0 THEN 0 - order_qty ELSE order_qty
        num == 40 * q - 4 * A
        a == IF num < 0 THEN 0 - num ELSE num
        u == ExpNeg(a \div A, DivFp(a % A, A, 8))
    IN  IF num >= 0
        THEN (IF u = 0 THEN FpScale ELSE DivFp(FpScale, FpScale + u, 8))
        ELSE DivFp(u, FpScale + u, 8)

\* round(v, 4) of the value I + frac sub-units, frac in [0,1) and fracPos == frac > 0:
\* to the nearest multiple of SubTick, a tie to the even one.
Round4(I, fracPos) ==
    LET t == I \div SubTick
        w == I % SubTick
        half == SubTick \div 2
    IN  IF w > half \/ (w = half /\ fracPos) THEN t + 1
        ELSE IF w = half THEN (IF t % 2 = 0 THEN t ELSE t + 1)
        ELSE t

\* The widest distance, in units of 1/FpScale, between Impact and the impact the
\* float arithmetic of main.py:48-49 yields.
ImpactError == 4

\* main.py:50-51  round(prev_close * (1 + 0.002 * signed), 4), signed = +-S/FpScale:
\* the prices the float arithmetic may yield.  The exact value is I + frac
\* sub-units; when it lies within the error of the float product of a tie of the
\* rounding, either neighbour of the tie may come out.
SignedPrice(prev_close, S, buy) ==
    LET \* prev_close * S / (500 * FpScale), exactly: quotient dq and whether a
        \* remainder is left
        c1 == prev_close \div FpBase
        c0 == prev_close % FpBase
        s1 == S \div FpBase
        s0 == S % FpBase
        Lw == c0 * s0
        Mw == c1 * s0 + c0 * s1 + (Lw \div FpBase)
        Hw == c1 * s1 + (Mw \div FpBase)
        dq == Hw \div 500
        fracPos == (Hw % 500 # 0) \/ (Mw % FpBase # 0) \/ (Lw % FpBase # 0)
        \* the remainder and the error of the product, in 1/(500 * FpBase) of a sub-unit
        rh == (Hw % 500) * FpBase + (Mw % FpBase)
        tol == ((prev_close * ImpactError) \div FpBase) + 2
        I == IF buy THEN prev_close + dq
             ELSE IF fracPos THEN prev_close - dq - 1 ELSE prev_close - dq
        g == IF buy \/ ~fracPos THEN rh ELSE 500 * FpBase - rh
        half == SubTick \div 2
        nearTie == \/ (I % SubTick = half /\ g <= tol)
                   \/ (I % SubTick = half - 1 /\ g >= 500 * FpBase - tol)
    IN  IF nearTie THEN {I \div SubTick, (I \div SubTick) + 1}
        ELSE {Round4(I, fracPos)}

\* mutant: the sign test of the impact is inverted
s_curve_price_flipped(prev_close, order_qty, adv) ==
    SignedPrice(prev_close, Impact(order_qty, adv), ~(order_qty > 0))

\* main.py:46-51  the prices the call may return
s_curve_price(prev_close, order_qty, adv) ==
    SignedPrice(prev_close, Impact(order_qty, adv), order_qty > 0)

----------------------------------------------------------------------------
(* Data provider, stub mode (judge_client.py) *)

Digits == {"0", "1", "2", "3", "4", "5", "6", "7", "8", "9"}

\* str.isdigit() on a string of the modelled alphabet
IsDigit(str) == Len(str) > 0 /\ \A i \in 1..Len(str) : str[i] \in Digits

DigitVal(ch) == CHOOSE d \in 0..9 : <<"0", "1", "2", "3", "4", "5", "6", "7", "8", "9">>[d + 1] = ch

\* int(str) of a string of decimal digits
RECURSIVE ParseInt(_)
ParseInt(str) ==
    IF Len(str) = 0 THEN 0
    ELSE 10 * ParseInt(SubSeq(str, 1, Len(str) - 1)) + DigitVal(str[Len(str)])

\* str(n) of a natural
RECURSIVE NatToStr(_)
NatToStr(n) ==
    LET d == <<"0", "1", "2", "3", "4", "5", "6", "7", "8", "9">>[(n % 10) + 1]
    IN  IF n < 10 THEN <<d>> ELSE Append(NatToStr(n \div 10), d)

\* str(n) of an integer
IntToStr(n) == IF n < 0 THEN <<"-">> \o NatToStr(0 - n) ELSE NatToStr(n)

\* judge_client.py:88 the default of limit
DefaultLimit == 100

\* judge_client.py:90  start = int(cursor) if (cursor or "0").isdigit() else 0
\* int(None) raises TypeError and int("") raises ValueError: both reach int()
\* because (cursor or "0") is "0".
CursorRaises(cursor) == cursor = None \/ cursor[1] = <<>>

CursorStart(cursor) == IF IsDigit(cursor[1]) THEN ParseInt(cursor[1]) ELSE 0

Min(a, b) == IF a < b THEN a ELSE b

\* list[start:stop] for start >= 0: a negative stop counts from the end of the
\* list, and bounds out of range are clipped
Slice(list, start, stop) ==
    LET n == Len(list)
        hi == IF stop >= 0 THEN Min(stop, n)
              ELSE IF stop + n < 0 THEN 0 ELSE stop + n
    IN  SubSeq(list, start + 1, hi)

\* judge_client.py:88-93  the result of list_clients, or the exception it raises
list_clients(clients, limit, cursor) ==
    IF CursorRaises(cursor) THEN [raised |-> TRUE, items |-> <<>>, nextCursor |-> None]
    ELSE LET start == CursorStart(cursor)
             stop == start + limit
         IN  [raised |-> FALSE,
              items |-> Slice(clients, start, stop),
              nextCursor |-> IF stop < Len(clients) THEN Some(IntToStr(stop)) ELSE None]

\* judge_client.py:123-125  date and ticker are Optional[str]
get_prices(prices, date, ticker) ==
    LET Keep(p) == (~Truthy(date) \/ p.date = date[1])
                   /\ (~Truthy(ticker) \/ p.ticker = ticker[1])
    IN  SelectSeq(prices, Keep)

\* judge_client.py:134-138  tickers is a set of upper-cased tickers
get_sentiment(sentiment, tickers) ==
    LET Keep(r) == tickers = {} \/ r.ticker \in tickers
    IN  SelectSeq(sentiment, Keep)

\* judge_client.py:147-151  the first bar of the ticker (and of the date, when one
\* is given), or None
find_price(prices, ticker, date) ==
    LET Keep(p) == p.ticker = ticker /\ (date = None \/ p.date = date[1])
        hits == SelectSeq(prices, Keep)
    IN  IF hits = <<>> THEN None ELSE Some(Head(hits))

----------------------------------------------------------------------------
(* The requests the model draws from *)

D1 == "2025-08-25"
D2 == "2025-08-26"

CsvSet == {"clients.csv", "holdings.csv", "index.csv", "prices.csv", "sentiment.jsonl"}
ParquetSet == {"clients.csv", "holdings.csv", "index.csv", "prices.parquet", "sentiment.jsonl"}

\* The member files of an archive in the order ingest_upload reads them, with the
\* fixture list each one fills.
FileOrder == <<"clients.csv", "holdings.csv", "index.csv", "prices.csv", "sentiment.jsonl">>

\* A member file: its rows as the records their conversion yields, and badAt, the
\* index of the first row whose conversion raises (0: none does).
File(rows, badAt) == [rows |-> rows, badAt |-> badAt]

Bar(date, ticker, close, adv) == [date |-> date, ticker |-> ticker, close |-> close, adv |-> adv]
Senti(ticker, score) == [ticker |-> ticker, score |-> score]
Hold(acc, ticker, qty) == [accountId |-> acc, ticker |-> ticker, qty |-> qty]
Idx(ticker, weight) == [ticker |-> ticker, weight |-> weight]
Cli(id) == [clientId |-> id]

\* a complete archive; the AAPL bar of D2 is not the first AAPL bar
ZipFull ==
    [sha |-> "sha256:full", names |-> CsvSet,
     files |-> <<File(<<Cli(7), Cli(8)>>, 0),
                 File(<<Hold(7, "AAPL", 5)>>, 0),
                 File(<<Idx("AAPL", 50)>>, 0),
                 File(<<Bar(D1, "AAPL", 3000, 1), Bar(D2, "MSFT", 43055000, 0),
                        Bar(D2, "AAPL", 139000, 100), Bar(D2, "AAPL", 500000, 0)>>, 0),
                 File(<<Senti("TSLA", 66), Senti("AAPL", 0), Senti("AAPL", 100)>>, 0)>>]

\* a complete archive without any AAPL bar
ZipNoAapl ==
    [sha |-> "sha256:noaapl", names |-> CsvSet,
     files |-> <<File(<<Cli(9)>>, 0),
                 File(<<Hold(9, "MSFT", 1)>>, 0),
                 File(<<Idx("MSFT", 40)>>, 0),
                 File(<<Bar(D1, "MSFT", 43055000, 25000000)>>, 0),
                 File(<<Senti("AAPL", 50)>>, 0)>>]

\* the alternate set: prices.parquet in place of prices.csv
ZipParquet ==
    [sha |-> "sha256:parquet", names |-> ParquetSet,
     files |-> <<File(<<Cli(5), Cli(6), Cli(7)>>, 0),
                 File(<<Hold(5, "V", 2)>>, 0),
                 File(<<Idx("V", 18)>>, 0),
                 File(<<>>, 0),
                 File(<<Senti("MSFT", 52)>>, 0)>>]

\* sentiment.jsonl is missing, both price files are there
ZipNoSentiment ==
    [sha |-> "sha256:nosent",
     names |-> {"clients.csv", "holdings.csv", "index.csv", "prices.csv", "prices.parquet"},
     files |-> <<File(<<Cli(1)>>, 0),
                 File(<<Hold(1, "AAPL", 1)>>, 0),
                 File(<<Idx("AAPL", 35)>>, 0),
                 File(<<Bar(D1, "AAPL", 100000, 0)>>, 0),
                 File(<<>>, 0)>>]

\* a complete archive whose second holdings row has a quantity that is no number
ZipBadRow ==
    [sha |-> "sha256:badrow", names |-> CsvSet,
     files |-> <<File(<<Cli(2), Cli(3)>>, 0),
                 File(<<Hold(2, "AAPL", 4), Hold(3, "AAPL", 0), Hold(3, "V", 1)>>, 2),
                 File(<<Idx("AAPL", 35)>>, 0),
                 File(<<Bar(D1, "AAPL", 100000, 0)>>, 0),
                 File(<<Senti("AAPL", 78)>>, 0)>>]

Archives == {ZipFull, ZipNoAapl, ZipParquet, ZipNoSentiment, ZipBadRow}

\* the Idempotency-Key header of an upload
IngestHeaders == {None, Some(""), Some("i1")}

\* the Idempotency-Key header of a rebalance
RebalanceKeys == {None, Some(""), Some("k1")}

Request(asOf, accountIds, weight) ==
    [asOf |-> asOf, accountIds |-> accountIds, sentimentWeight |-> weight]

\* the weights 0.25 and 1.00: with an ingested score of 0 the first one sizes the
\* batch at the tie 7.5, the second one below the floor of 1
Requests ==
    {Request(d, Some(<<7, 3>>), w) : d \in {D1, D2}, w \in {25, 100}}
    \cup {Request(D1, None, 25), Request(D2, Some(<<>>), 100)}

\* a requestId no rebalance issues
FabricatedId == 0 - 1

----------------------------------------------------------------------------
(* State after construction *)

NoBody == [none |-> TRUE]

NoCalc == [done |-> FALSE, close |-> 0, qty |-> 0, adv |-> 0, price |-> 0]

NoPage == [done |-> FALSE, limit |-> 0, cursor |-> None, raised |-> FALSE,
           items |-> <<>>, nextCursor |-> None]

\* what the finished queries of a request have read, each an Optional: the client
\* list, the bars the price query by date examined, the bars the price query of
\* any date examined, the sentiment records examined
NoSeen == [clients |-> None, dated |-> None, any |-> None, sentiment |-> None]

\* judge_client.py:36-70  the fixture lists the process starts with: clients,
\* holdings, index, prices, sentiment
StubFixtures ==
    <<<<Cli(1), Cli(2), Cli(3), Cli(4)>>,
      <<Hold(1, "AAPL", 120), Hold(1, "MSFT", 80), Hold(2, "V", 50),
        Hold(3, "NVDA", 30), Hold(4, "TSLA", 20), Hold(4, "AAPL", 15)>>,
      <<Idx("AAPL", 35), Idx("MSFT", 40), Idx("NVDA", 30),
        Idx("AMZN", 28), Idx("TSLA", 20), Idx("V", 18)>>,
      <<Bar(D1, "AAPL", 22713000, 82000000), Bar(D1, "MSFT", 43055000, 25000000),
        Bar(D1, "NVDA", 11622000, 60000000), Bar(D1, "AMZN", 17140000, 50000000),
        Bar(D1, "TSLA", 23865000, 150000000), Bar(D1, "V", 27890000, 7000000)>>,
      <<Senti("AAPL", 78), Senti("TSLA", 66), Senti("MSFT", 52)>>>>

Init ==
    /\ STUB_CLIENTS = StubFixtures[1]
    /\ STUB_HOLDINGS = StubFixtures[2]
    /\ STUB_INDEX = StubFixtures[3]
    /\ STUB_PRICES = StubFixtures[4]
    /\ STUB_SENTIMENT = StubFixtures[5]
    /\ INGESTED_CHECKSUMS = <<>>
    /\ REBALANCE_RESULTS = <<>>
    /\ ACKED_REQUESTS = {}
    /\ now = 0
    /\ threads = <<>>
    /\ last = [op |-> "init", status |-> 0, key |-> None, req |-> NoBody,
               out |-> NoBody, hit |-> FALSE, queries |-> <<>>, seen |-> NoSeen,
               since |-> 0, before |-> <<>>]
    /\ served = 0
    /\ returned = <<>>
    /\ writes = <<>>
    /\ ackCount = <<>>
    /\ failed = {}
    /\ acknowledged = {}
    /\ calc = NoCalc
    /\ page = NoPage

----------------------------------------------------------------------------
(* Requests in progress.                                                    *)
(* rebalance and ack are plain `def` handlers: the framework runs each call *)
(* on a thread of its pool, and the threads interleave between any two      *)
(* operations on the shared dicts and lists.  ingest_upload is an           *)
(* `async def` without an await after file.read(): uploads run on the one   *)
(* thread of the event loop, one after the other, while the pool threads run *)
(* beside it.  A step below is one access to the shared state together with *)
(* the local computation around it.  A provider query is a comprehension     *)
(* over a shared list: its iterator examines one element per step, and the  *)
(* list may be cleared and refilled between two of them.  The first step of *)
(* a handler is taken as the request arrives.                               *)

\* a request in progress: its handler, its position, its input and its locals
Thread(op, pc, in, loc) == [op |-> op, pc |-> pc, in |-> in, loc |-> loc]

\* the handler has returned or raised
Done(th, status, out) ==
    [th EXCEPT !.pc = "done", !.loc = [th.loc EXCEPT !.status = status, !.out = out]]

\* the provider queries of a request, in the order the handler makes them
Queries(seen) ==
    (IF seen.clients # None THEN <<"list_clients">> ELSE <<>>)
    \o (IF seen.dated # None THEN <<"get_prices">> ELSE <<>>)
    \o (IF seen.any # None THEN <<"get_prices">> ELSE <<>>)
    \o (IF seen.sentiment # None THEN <<"get_sentiment">> ELSE <<>>)

\* the response of a finished request, as `last` records it, with the lists the
\* request read, the second of its first reading of the clock and the fixtures as
\* its upload found them
Response(th) ==
    [op |-> th.op, status |-> th.loc.status,
     key |-> IF th.op = "ack" THEN None ELSE th.in.key,
     req |-> IF th.op = "rebalance" THEN th.in.req
             ELSE IF th.op = "ack" THEN [requestId |-> th.in.resp.requestId, resp |-> th.in.resp]
             ELSE [sha |-> th.in.arch.sha, header |-> th.in.header],
     out |-> th.loc.out, hit |-> th.loc.hit,
     queries |-> IF th.op = "rebalance" THEN Queries(th.loc.seen) ELSE <<>>,
     seen |-> IF th.op = "rebalance" THEN th.loc.seen ELSE NoSeen,
     since |-> IF th.op = "rebalance" THEN th.loc.since ELSE 0,
     before |-> IF th.op = "ingest" THEN th.loc.before ELSE <<>>]

\* the count under k of the counting history f, one more and capped at 2
Counted(f, k) == IF k \in DOMAIN f THEN (IF f[k] < 2 THEN f[k] + 1 ELSE 2) ELSE 1

\* the histories after the request th has taken a step: they record what a
\* finished request did and was answered
Record(th) ==
    IF th.pc # "done" THEN UNCHANGED <<last, history>>
    ELSE LET result == th.op = "rebalance" /\ th.loc.status = 200 /\ Truthy(th.in.key)
             rid == th.in.resp.requestId
             old == IF rid \in DOMAIN ackCount THEN ackCount[rid]
                    ELSE [calls |-> 0, firsts |-> 0]
             Cap(n) == IF n < 2 THEN n + 1 ELSE 2
         IN  /\ last' = Response(th)
             /\ returned' =
                   IF result
                   THEN (th.in.key[1] :> ((IF th.in.key[1] \in DOMAIN returned
                                           THEN returned[th.in.key[1]] ELSE {})
                                          \cup {th.loc.out})) @@ returned
                   ELSE returned
             /\ writes' = IF th.op = "rebalance" /\ th.loc.stored
                          THEN (th.in.key[1] :> Counted(writes, th.in.key[1])) @@ writes
                          ELSE writes
             /\ failed' = IF th.op = "rebalance" /\ th.loc.status = 503 /\ Truthy(th.in.key)
                          THEN failed \cup {th.in.key[1]} ELSE failed
             /\ ackCount' =
                   IF th.op = "ack"
                   THEN (rid :> [calls |-> Cap(old.calls),
                                 firsts |-> IF th.loc.duplicate THEN old.firsts
                                            ELSE Cap(old.firsts)]) @@ ackCount
                   ELSE ackCount
             /\ acknowledged' = IF th.op = "ack" THEN acknowledged \cup {th.in.resp}
                                ELSE acknowledged

\* the sequence without its t-th element
Remove(seq, t) == SubSeq(seq, 1, t - 1) \o SubSeq(seq, t + 1, Len(seq))

\* the request t takes a step to the record th; a finished request leaves
Step(t, th) ==
    /\ threads' = IF th.pc = "done" THEN Remove(threads, t) ELSE [threads EXCEPT ![t] = th]
    /\ Record(th)
    /\ UNCHANGED <<now, served, calc, page>>

\* the request t is at the position pc of the handler op
At(t, op, pc) == threads[t].op = op /\ threads[t].pc = pc

\* a request arrives, is handed to a thread and takes its first step, to the
\* record th
Accept(th) ==
    /\ Len(threads) < MaxThreads
    /\ served' = served + 1
    /\ threads' = IF th.pc = "done" THEN threads ELSE Append(threads, th)
    /\ Record(th)
    /\ UNCHANGED <<now, calc, page>>

----------------------------------------------------------------------------
(* POST /rebalance  (main.py:156-204) *)

\* main.py:160  idempotency_key and idempotency_key in REBALANCE_RESULTS
IdemHit(key, results) == Truthy(key) /\ key[1] \in DOMAIN results

\* main.py:165-168  the explicit list when it is there and not empty, else the
\* identifiers of judge.list_clients()["items"]
ResolveAccounts(accountIds, clients) ==
    IF TruthyList(accountIds)
    THEN [raised |-> FALSE, queried |-> FALSE, accounts |-> accountIds[1]]
    ELSE LET r == list_clients(clients, DefaultLimit, None)
         IN  [raised |-> r.raised, queried |-> TRUE,
              accounts |-> [i \in 1..Len(r.items) |-> r.items[i].clientId]]

\* round() of the rational n/d, d > 0: to the nearest integer, a tie to the even one
RoundHalfEven(n, d) ==
    LET q == n \div d
        r == n % d
    IN  IF 2 * r > d THEN q + 1
        ELSE IF 2 * r = d THEN (IF q % 2 = 0 THEN q ELSE q + 1)
        ELSE q

\* main.py:183-185  tilt = (score - 0.5) * 2 of the first AAPL record, else 0; in
\* hundredths
Tilt(sentiment) ==
    LET senti == get_sentiment(sentiment, {"AAPL"})
        aapl == SelectSeq(senti, LAMBDA r : r.ticker = "AAPL")
    IN  IF aapl = <<>> THEN 0 ELSE (Head(aapl).score - 50) * 2

\* int(round(x / 1000)) for x thousandths: when x is an exact tie, the float the
\* code rounds may lie on either side of it, and either neighbour may come out
Rounded(x) ==
    IF x % 1000 = 500 THEN {x \div 1000, (x \div 1000) + 1} ELSE {RoundHalfEven(x, 1000)}

\* mutant: the floor of one share is left out
QtyCommon_nofloor(weight, tilt) == Rounded(10000 + weight * tilt)

\* main.py:191-192  max(1, int(round(10 * (1 + sentimentWeight * tilt)))): the
\* quantities the call may compute
QtyCommon(weight, tilt) ==
    {IF q > 1 THEN q ELSE 1 : q \in Rounded(10000 + weight * tilt)}

\* main.py:197  pb.adv or 1_000_000
AdvOrDefault(adv) == IF adv = 0 THEN 1000000 ELSE adv

\* main.py:200  request_id = f"rb-{int(now.timestamp())}"
RequestId(t) == t

\* main.py:199-200  the clock is read once per order and once more for the
\* requestId: the readings of n + 1 consecutive reads taken from the second lo to
\* the second hi
Stamps(n, lo, hi) ==
    {s \in [1..(n + 1) -> lo..hi] : \A i \in 1..n : s[i] <= s[i + 1]}

\* mutant: the price moves with the account's position in the batch
BuildOrders_peraccount(accounts, qty, execPrice, ts) ==
    [i \in 1..Len(accounts) |->
        [accountId |-> accounts[i], ticker |-> "AAPL", side |-> "BUY", qty |-> qty,
         execPrice |-> execPrice + (i - 1), ts |-> ts[i]]]

\* main.py:194-199  one BUY order per account, all at the price of the call's
\* minute bucket, each stamped with its own reading of the clock
BuildOrders(accounts, qty, execPrice, ts) ==
    [i \in 1..Len(accounts) |->
        [accountId |-> accounts[i], ticker |-> "AAPL", side |-> "BUY", qty |-> qty,
         execPrice |-> execPrice, ts |-> ts[i]]]

\* main.py:187-201  the responses the call may build for its accounts, its bar and
\* its quantity while the clock goes from lo to hi
Results(accounts, pb, qty, lo, hi) ==
    {[requestId |-> RequestId(ts[Len(accounts) + 1]),
      orders |-> BuildOrders(accounts, qty, execPrice, ts)] :
        execPrice \in s_curve_price(pb.close, qty, AdvOrDefault(pb.adv)),
        ts \in Stamps(Len(accounts), lo, hi)}

\* mutant: a call without a key stores its result under the empty key
Stored_defaultkey(r, key, results, t) ==
    IF ~r.hit /\ r.status = 200
    THEN ((IF Truthy(key) THEN key[1] ELSE "") :> r.out) @@ results
    ELSE results

\* mutant: the outcome of a miss is stored under the key whether or not it is a
\* result
Stored_failure(r, key, results, t) ==
    IF ~r.hit /\ Truthy(key) THEN (key[1] :> r.out) @@ results ELSE results

\* main.py:202-203  if idempotency_key: REBALANCE_RESULTS[idempotency_key] = resp
\* (reached on a miss that computed a result)
Stored(r, key, results, t) ==
    IF ~r.hit /\ r.status = 200 /\ Truthy(key)
    THEN (key[1] :> r.out) @@ results
    ELSE results

\* REBALANCE_RESULTS after the rebalance request th has taken a step
Put(th) ==
    IF th.pc = "done"
    THEN Stored([hit |-> th.loc.hit, status |-> th.loc.status, out |-> th.loc.out],
                th.in.key, REBALANCE_RESULTS, now)
    ELSE REBALANCE_RESULTS

\* judge_client.py:125, 137  the iterator of a comprehension over a shared list,
\* part being the elements it has examined: it is exhausted once its index has
\* reached the length the list has now
Exhausted(part, list) == Len(part) >= Len(list)

\* judge_client.py:125, 137  the iterator examines the element at its index
Examined(part, list) == Append(part, list[Len(part) + 1])

\* main.py:160-161  the request arrives and looks its key up
StartRebalance(req, key) ==
    LET th == Thread("rebalance", "accounts", [req |-> req, key |-> key],
                     [accounts |-> <<>>, pb |-> None, qty |-> 0, seen |-> NoSeen,
                      part |-> <<>>,
                      since |-> 0, hit |-> FALSE, stored |-> FALSE, status |-> 0,
                      out |-> NoBody])
    IN  \E nxt \in {IF IdemHit(key, REBALANCE_RESULTS)
                    THEN Done([th EXCEPT !.loc.hit = TRUE], 200, REBALANCE_RESULTS[key[1]])
                    ELSE th} :
            /\ Accept(nxt)
            /\ REBALANCE_RESULTS' = Put(nxt)
            /\ UNCHANGED <<fixtures, INGESTED_CHECKSUMS, ACKED_REQUESTS>>

\* main.py:165-168
RebalanceAccounts(t) ==
    LET th == threads[t]
        acc == ResolveAccounts(th.in.req.accountIds, STUB_CLIENTS)
        seen == IF acc.queried THEN [th.loc.seen EXCEPT !.clients = Some(STUB_CLIENTS)]
                ELSE th.loc.seen
    IN  /\ At(t, "rebalance", "accounts")
        /\ \E nxt \in {IF acc.raised THEN Done([th EXCEPT !.loc.seen = seen], 500, NoBody)
                       ELSE [th EXCEPT !.pc = "prices", !.loc.accounts = acc.accounts,
                                       !.loc.seen = seen]} :
              /\ Step(t, nxt)
              /\ REBALANCE_RESULTS' = Put(nxt)
        /\ UNCHANGED <<fixtures, INGESTED_CHECKSUMS, ACKED_REQUESTS>>

\* main.py:170-171  one step of get_prices(date=asOf) over STUB_PRICES; when the
\* iterator is exhausted, find_price on the bars it kept
RebalancePricesAsOf(t) ==
    LET th == threads[t]
        asOf == th.in.req.asOf
        part == th.loc.part
        pb == find_price(get_prices(part, Some(asOf), None), "AAPL", Some(asOf))
    IN  /\ At(t, "rebalance", "prices")
        /\ Step(t, IF ~Exhausted(part, STUB_PRICES)
                   THEN [th EXCEPT !.loc.part = Examined(part, STUB_PRICES)]
                   ELSE [th EXCEPT !.pc = IF pb = None THEN "pricesAny" ELSE "sentiment",
                                   !.loc.pb = pb, !.loc.seen.dated = Some(part),
                                   !.loc.part = <<>>])
        /\ UNCHANGED <<fixtures, stores>>

\* main.py:173-181  one step of get_prices() over STUB_PRICES; when the iterator
\* is exhausted, find_price on the bars it kept, and 503 without an AAPL bar
RebalancePricesAny(t) ==
    LET th == threads[t]
        part == th.loc.part
        pb == find_price(get_prices(part, None, None), "AAPL", None)
        seen == [th.loc.seen EXCEPT !.any = Some(part)]
    IN  /\ At(t, "rebalance", "pricesAny")
        /\ \E nxt \in {IF ~Exhausted(part, STUB_PRICES)
                       THEN [th EXCEPT !.loc.part = Examined(part, STUB_PRICES)]
                       ELSE IF pb = None
                       THEN Done([th EXCEPT !.loc.seen = seen, !.loc.part = <<>>], 503, NoBody)
                       ELSE [th EXCEPT !.pc = "sentiment", !.loc.pb = pb, !.loc.seen = seen,
                                       !.loc.part = <<>>]} :
              /\ Step(t, nxt)
              /\ REBALANCE_RESULTS' = Put(nxt)
        /\ UNCHANGED <<fixtures, INGESTED_CHECKSUMS, ACKED_REQUESTS>>

\* main.py:183-192  one step of get_sentiment(tickers=["AAPL"]) over
\* STUB_SENTIMENT; when the iterator is exhausted, the quantity from the records
\* it kept.  The clock is first read after this query.
RebalanceSentiment(t) ==
    LET th == threads[t]
        part == th.loc.part
    IN  /\ At(t, "rebalance", "sentiment")
        /\ IF ~Exhausted(part, STUB_SENTIMENT)
           THEN Step(t, [th EXCEPT !.loc.part = Examined(part, STUB_SENTIMENT)])
           ELSE \E qty \in QtyCommon(th.in.req.sentimentWeight, Tilt(part)) :
                   Step(t, [th EXCEPT !.pc = "store", !.loc.qty = qty, !.loc.since = now,
                                      !.loc.seen.sentiment = Some(part), !.loc.part = <<>>])
        /\ UNCHANGED <<fixtures, stores>>

\* main.py:194-204
RebalanceStore(t) ==
    LET th == threads[t]
    IN  /\ At(t, "rebalance", "store")
        /\ \E out \in Results(th.loc.accounts, th.loc.pb[1], th.loc.qty, th.loc.since, now) :
              \E nxt \in {Done([th EXCEPT !.loc.stored = Truthy(th.in.key)], 200, out)} :
                  /\ Step(t, nxt)
                  /\ REBALANCE_RESULTS' = Put(nxt)
        /\ UNCHANGED <<fixtures, INGESTED_CHECKSUMS, ACKED_REQUESTS>>

\* main.py:163-201  the computation of a miss as a whole: its status, its response
\* and its provider queries, for the lists its queries read (clients; prices, by
\* the query of the date and by the query of any date; sentiment) and the clock
\* going from lo to hi
Compute(req, clients, dated, any, sentiment, lo, hi) ==
    LET acc == ResolveAccounts(req.accountIds, clients)
        q1 == IF acc.queried THEN <<"list_clients">> ELSE <<>>
        first == find_price(get_prices(dated, Some(req.asOf), None), "AAPL", Some(req.asOf))
        pb == IF first # None THEN first
              ELSE find_price(get_prices(any, None, None), "AAPL", None)
        q2 == q1 \o (IF first = None THEN <<"get_prices", "get_prices">> ELSE <<"get_prices">>)
    IN  IF acc.raised THEN {[status |-> 500, out |-> NoBody, queries |-> q1]}
        ELSE IF pb = None THEN {[status |-> 503, out |-> NoBody, queries |-> q2]}
        ELSE {[status |-> 200, out |-> out, queries |-> Append(q2, "get_sentiment")] :
                 out \in UNION {Results(acc.accounts, pb[1], qty, lo, hi) :
                                   qty \in QtyCommon(req.sentimentWeight, Tilt(sentiment))}}

----------------------------------------------------------------------------
(* POST /ack  (main.py:207-211) *)

\* main.py:210  ACKED_REQUESTS[resp.requestId] = True
AckMark(acked, requestId) == acked \cup {requestId}

\* main.py:209  ACKED_REQUESTS.get(resp.requestId, False)
AckDuplicate(acked, requestId) == requestId \in acked

\* The responses a client may acknowledge: one it was given, one stored, or one it
\* made up.
AckInputs ==
    {REBALANCE_RESULTS[k] : k \in DOMAIN REBALANCE_RESULTS}
    \cup (IF last.op = "rebalance" /\ last.status = 200 THEN {last.out} ELSE {})
    \cup {[requestId |-> FabricatedId, orders |-> <<>>]}

\* main.py:209  the request arrives and reads the mark of its requestId
StartAck(resp) ==
    /\ Accept(Thread("ack", "set", [resp |-> resp],
                     [duplicate |-> AckDuplicate(ACKED_REQUESTS, resp.requestId),
                      hit |-> FALSE, status |-> 0, out |-> NoBody]))
    /\ UNCHANGED <<fixtures, stores>>

\* main.py:210-211
AckSet(t) ==
    LET th == threads[t]
        rid == th.in.resp.requestId
    IN  /\ At(t, "ack", "set")
        /\ ACKED_REQUESTS' = AckMark(ACKED_REQUESTS, rid)
        /\ Step(t, Done(th, 200, [duplicate |-> th.loc.duplicate,
                                  received |-> [requestId |-> rid,
                                                orders |-> Len(th.in.resp.orders)]]))
        /\ UNCHANGED <<fixtures, INGESTED_CHECKSUMS, REBALANCE_RESULTS>>

----------------------------------------------------------------------------
(* POST /ingest/upload  (main.py:61-153) *)

\* main.py:67  the checksum of the blob: the archive's own name for its content
Checksum(arch) == arch.sha

\* main.py:68  key = idempotency_key or checksum
IngestKey(header, arch) == IF Truthy(header) THEN header[1] ELSE Checksum(arch)

\* mutant: only the first of the two required sets is looked at, and loosely
HasRequired_loose(names) == (CsvSet \ {"sentiment.jsonl"}) \subseteq names

\* main.py:77-79  any(req.issubset(names) for req in required_any)
HasRequired(names) == CsvSet \subseteq names \/ ParquetSet \subseteq names

\* main.py:145  dataset_version = f"v{now:%Y%m%d-%H%M%S}"
DatasetVersion(t) == t

\* mutant: the store of registered keys is never consulted
IngestHit_never(key, checksums) == FALSE

\* main.py:70  key in INGESTED_CHECKSUMS
IngestHit(key, checksums) == key \in DOMAIN checksums

\* the first member file at or after the i-th of the reading order; 6 when none
RECURSIVE NextMember(_, _)
NextMember(arch, i) ==
    IF i > Len(FileOrder) \/ FileOrder[i] \in arch.names THEN i ELSE NextMember(arch, i + 1)

\* main.py:88-143  the upload after the row j of the file i was appended (j = 0: after
\* the list was cleared): the conversion of the next row raises, or the next row
\* is appended, or the next member file is cleared, or the clock is read for the
\* dataset version
Advance(th, i, j) ==
    LET f == th.in.arch.files[i]
        k == NextMember(th.in.arch, i + 1)
    IN  IF f.badAt = j + 1 THEN Done([th EXCEPT !.loc.file = i, !.loc.row = j], 500, NoBody)
        ELSE IF j + 1 <= Len(f.rows) THEN [th EXCEPT !.loc.file = i, !.loc.row = j + 1]
        ELSE IF k <= Len(FileOrder) THEN [th EXCEPT !.loc.file = k, !.loc.row = 0]
        ELSE [th EXCEPT !.pc = "version", !.loc.file = k, !.loc.row = 0]

\* the i-th fixture list becomes value
SetList(i, value) ==
    /\ STUB_CLIENTS' = IF i = 1 THEN value ELSE STUB_CLIENTS
    /\ STUB_HOLDINGS' = IF i = 2 THEN value ELSE STUB_HOLDINGS
    /\ STUB_INDEX' = IF i = 3 THEN value ELSE STUB_INDEX
    /\ STUB_PRICES' = IF i = 4 THEN value ELSE STUB_PRICES
    /\ STUB_SENTIMENT' = IF i = 5 THEN value ELSE STUB_SENTIMENT

\* main.py:67-80  the upload arrives: the short-circuit and the validation of the
\* archive.  The event loop runs one upload at a time.
StartIngest(arch, header) ==
    LET key == IngestKey(header, arch)
        th == Thread("ingest", "load", [arch |-> arch, header |-> header, key |-> Some(key)],
                     [file |-> NextMember(arch, 1), row |-> 0, before |-> fixtures,
                      version |-> DatasetVersion(0),
                      hit |-> FALSE, status |-> 0, out |-> NoBody])
    IN  /\ \A t \in 1..Len(threads) : threads[t].op # "ingest"
        /\ Accept(IF IngestHit(key, INGESTED_CHECKSUMS)
                  THEN Done([th EXCEPT !.loc.hit = TRUE], 200,
                            [datasetVersion |-> INGESTED_CHECKSUMS[key],
                             receivedFiles |-> {}, idempotent |-> TRUE])
                  ELSE IF ~HasRequired(arch.names) THEN Done(th, 400, NoBody)
                  ELSE th)
        /\ UNCHANGED <<fixtures, stores>>

\* main.py:88-143  one clear() or one append() of a fixture list
IngestLoad(t) ==
    LET th == threads[t]
        i == th.loc.file
        j == th.loc.row
    IN  /\ At(t, "ingest", "load")
        /\ SetList(i, IF j = 0 THEN <<>> ELSE Append(fixtures[i], th.in.arch.files[i].rows[j]))
        /\ Step(t, Advance(th, i, j))
        /\ UNCHANGED stores

\* main.py:145  the clock is read for the dataset version
IngestVersion(t) ==
    LET th == threads[t]
    IN  /\ At(t, "ingest", "version")
        /\ Step(t, [th EXCEPT !.pc = "register", !.loc.version = DatasetVersion(now)])
        /\ UNCHANGED <<fixtures, stores>>

\* main.py:146-153  the version read before is stored under the key and answered
IngestRegister(t) ==
    LET th == threads[t]
    IN  /\ At(t, "ingest", "register")
        /\ INGESTED_CHECKSUMS' = (th.in.key[1] :> th.loc.version) @@ INGESTED_CHECKSUMS
        /\ Step(t, Done(th, 200, [datasetVersion |-> th.loc.version,
                                  receivedFiles |-> th.in.arch.names,
                                  parsed |-> [prices_csv |-> "prices.csv" \in th.in.arch.names]]))
        /\ UNCHANGED <<fixtures, REBALANCE_RESULTS, ACKED_REQUESTS>>

----------------------------------------------------------------------------
(* The wall clock and the service *)

Tick ==
    /\ now < MaxTime
    /\ now' = now + 1
    /\ UNCHANGED <<fixtures, stores, threads, last, served, history, calc, page>>

Next ==
    \/ \E req \in Requests, key \in RebalanceKeys :
          served < MaxRequests /\ StartRebalance(req, key)
    \/ \E t \in 1..Len(threads) : RebalanceAccounts(t)
    \/ \E t \in 1..Len(threads) : RebalancePricesAsOf(t)
    \/ \E t \in 1..Len(threads) : RebalancePricesAny(t)
    \/ \E t \in 1..Len(threads) : RebalanceSentiment(t)
    \/ \E t \in 1..Len(threads) : RebalanceStore(t)
    \/ \E resp \in AckInputs : served < MaxRequests /\ StartAck(resp)
    \/ \E t \in 1..Len(threads) : AckSet(t)
    \/ \E arch \in Archives, header \in IngestHeaders :
          served < MaxRequests /\ StartIngest(arch, header)
    \/ \E t \in 1..Len(threads) : IngestLoad(t)
    \/ \E t \in 1..Len(threads) : IngestVersion(t)
    \/ \E t \in 1..Len(threads) : IngestRegister(t)
    \/ Tick

Spec == Init /\ [][Next]_vars

----------------------------------------------------------------------------
(* The service offered few different requests, and one request more: uploads *)
(* of two archives and rebalance calls of one body under one key             *)

RetryArchives == {ZipFull, ZipNoAapl}
RetryRequests == {Request(D1, Some(<<7, 3>>), 25)}
RetryKeys == {Some("k1")}

NextRetry ==
    \/ \E req \in RetryRequests, key \in RetryKeys :
          served < MaxRetryRequests /\ StartRebalance(req, key)
    \/ \E t \in 1..Len(threads) : RebalanceAccounts(t)
    \/ \E t \in 1..Len(threads) : RebalancePricesAsOf(t)
    \/ \E t \in 1..Len(threads) : RebalancePricesAny(t)
    \/ \E t \in 1..Len(threads) : RebalanceSentiment(t)
    \/ \E t \in 1..Len(threads) : RebalanceStore(t)
    \/ \E arch \in RetryArchives : served < MaxRetryRequests /\ StartIngest(arch, None)
    \/ \E t \in 1..Len(threads) : IngestLoad(t)
    \/ \E t \in 1..Len(threads) : IngestVersion(t)
    \/ \E t \in 1..Len(threads) : IngestRegister(t)
    \/ Tick

SpecRetry == Init /\ [][NextRetry]_vars

----------------------------------------------------------------------------
(* s_curve_price on its own: the function applied to inputs of bounded sets *)

\* closes of 0.00004, 0.025, 0.03, 0.075, 1.39 and 227.13
Closes == {4, 2500, 3000, 7500, 139000, 22713000}
Quantities == {0 - 1000, 0 - 10, 0 - 1, 0, 1, 10, 11, 60, 1000}
Advs == {0, 1, 100, 1000000, 82000000}

Price(close, qty, adv) ==
    /\ \E price \in s_curve_price(close, qty, adv) :
          calc' = [done |-> TRUE, close |-> close, qty |-> qty, adv |-> adv, price |-> price]
    /\ UNCHANGED <<fixtures, stores, now, threads, last, served, history, page>>

NextPrice == \E close \in Closes, qty \in Quantities, adv \in Advs : Price(close, qty, adv)

SpecPrice == Init /\ [][NextPrice]_vars

----------------------------------------------------------------------------
(* list_clients on its own: the pages of the client list *)

\* the limits a caller passes: integers, the default among them
Limits == {0 - 3, 0 - 1, 0, 1, 2, 3, 4, 5, 6, DefaultLimit}

\* the cursors a caller passes: none, the empty string, strings of digits, a
\* string that is no number, and the cursor the last page returned
Cursors ==
    {None, Some(<<>>), Some(<<"a">>), Some(<<"0", "0">>), Some(<<"0", "3">>),
     Some(<<"1", "2">>)}
    \cup {Some(<<d>>) : d \in {"0", "1", "2", "3", "4", "5", "9"}}

Page(limit, cursor) ==
    /\ \E r \in {list_clients(STUB_CLIENTS, limit, cursor)} :
          page' = [done |-> TRUE, limit |-> limit, cursor |-> cursor, raised |-> r.raised,
                   items |-> r.items, nextCursor |-> r.nextCursor]
    /\ UNCHANGED <<fixtures, stores, now, threads, last, served, history, calc>>

NextPages == \E limit \in Limits, cursor \in Cursors \cup {page.nextCursor} : Page(limit, cursor)

SpecPages == Init /\ [][NextPages]_vars

----------------------------------------------------------------------------
(* Properties *)

ClientIds(clients) == [i \in 1..Len(clients) |-> clients[i].clientId]
AccountsOf(orders) == [i \in 1..Len(orders) |-> orders[i].accountId]
Aapl(prices) == SelectSeq(prices, LAMBDA p : p.ticker = "AAPL")
ArchiveOf(sha) == CHOOSE a \in Archives : a.sha = sha

\* the elements a query examined; the empty list when the query was not made
Read(opt) == IF opt = None THEN <<>> ELSE opt[1]

\* a step that answers a request of the kind op
Served(op) == (served' - Len(threads')) > (served - Len(threads)) /\ last'.op = op

\* the outcomes the computation of a miss may have for the lists the answered
\* request r read
Recomputed(r) ==
    Compute(r.req, Read(r.seen.clients), Read(r.seen.dated), Read(r.seen.any),
            Read(r.seen.sentiment), r.since, now)

\* C1 (as claimed): once a rebalance call with key K has returned a result, every
\* call with K answered later succeeds and returns that very result (one result
\* per key, whatever was ingested in between and whatever the later request asks
\* for), and a hit makes no provider query and answers with the stored result.
C1_IdempotentRebalance ==
    /\ \A k \in DOMAIN returned : Cardinality(returned[k]) = 1
    /\ (last.op = "rebalance" /\ Truthy(last.key) /\ last.key[1] \in DOMAIN returned)
          => (last.status = 200 /\ returned[last.key[1]] = {last.out})
    /\ (last.op = "rebalance" /\ last.hit)
          => (last.queries = <<>> /\ last.out = REBALANCE_RESULTS[last.key[1]])

\* C1, the part that holds of every call: a hit makes no provider query and
\* answers with the result the store holds under its key.
C1_HitReturnsStored ==
    (last.op = "rebalance" /\ last.hit)
       => (last.queries = <<>> /\ last.status = 200
           /\ last.out = REBALANCE_RESULTS[last.key[1]])

\* C2 (as claimed): of the acks of a requestId, issued or fabricated, the first
\* one answered says duplicate = false and every one answered after it says
\* duplicate = true.
C2_AckDuplicateDetection ==
    last.op = "ack" =>
        /\ last.req.requestId \in DOMAIN ackCount
        /\ last.out.duplicate <=> (ackCount[last.req.requestId].calls >= 2)

\* C2, for acks that do not overlap: a requestId is marked exactly when an ack of
\* it was answered, an ack reads the mark as it arrives, and the answer duplicate =
\* true is given only after another ack of the requestId was answered.
C2_AckDuplicateDetectionInTurn ==
    /\ ACKED_REQUESTS = DOMAIN ackCount
    /\ \A t \in 1..Len(threads) :
          threads[t].op = "ack" =>
             (threads[t].loc.duplicate => threads[t].in.resp.requestId \in ACKED_REQUESTS)
    /\ last.op = "ack" =>
          (last.out.duplicate => ackCount[last.req.requestId].calls >= 2)

\* C3: a rebalance call without a key (absent or empty) is never a hit whatever
\* REBALANCE_RESULTS holds, answers with a computation on the lists its queries
\* read, and leaves REBALANCE_RESULTS unchanged: the store changes only as a call
\* with a key is answered.
C3_KeylessNeverDeduplicated ==
    [][/\ (Served("rebalance") /\ ~Truthy(last'.key)) =>
             /\ ~last'.hit
             /\ [status |-> last'.status, out |-> last'.out, queries |-> last'.queries]
                   \in Recomputed(last')
             /\ REBALANCE_RESULTS' = REBALANCE_RESULTS
       /\ REBALANCE_RESULTS' # REBALANCE_RESULTS =>
             (Served("rebalance") /\ Truthy(last'.key))]_vars

\* C3 witness: a keyless call has computed a result while the store holds another
\* result, for the same accounts.
C3_Witness ==
    /\ last.op = "rebalance" /\ last.key = Some("") /\ last.status = 200
    /\ \E k \in DOMAIN REBALANCE_RESULTS :
          /\ REBALANCE_RESULTS[k] # last.out
          /\ AccountsOf(REBALANCE_RESULTS[k].orders) = AccountsOf(last.out.orders)

\* C4: an upload under an unregistered key whose archive holds neither required
\* set is rejected with 400 and leaves the five fixture lists and
\* INGESTED_CHECKSUMS as they were.
C4_InvalidArchiveRejected ==
    [][(/\ Served("ingest")
        /\ last'.key[1] \notin DOMAIN INGESTED_CHECKSUMS
        /\ ~(CsvSet \subseteq ArchiveOf(last'.req.sha).names)
        /\ ~(ParquetSet \subseteq ArchiveOf(last'.req.sha).names))
       => (/\ last'.status = 400
           /\ UNCHANGED <<fixtures, INGESTED_CHECKSUMS>>
           /\ fixtures = last'.before)]_vars

\* C4 witness: the archive without sentiment.jsonl was rejected after another
\* archive had been ingested.
C4_Witness ==
    /\ last.op = "ingest" /\ last.status = 400
    /\ last.req.sha = ZipNoSentiment.sha
    /\ INGESTED_CHECKSUMS # <<>>

\* C5 (as claimed): on a miss the first AAPL bar of the as-of date is used, else
\* the first AAPL bar of any date, and the call fails with 503 exactly when the
\* price list holds no AAPL bar.  The price list is the bars each query of the
\* call examined, and the list of the moment for a call that made no query.
C5_PriceResolution ==
    (last.op = "rebalance" /\ ~last.hit) =>
        LET byDate == IF last.seen.dated # None THEN last.seen.dated[1] ELSE STUB_PRICES
            byAny == IF last.seen.any # None THEN last.seen.any[1] ELSE byDate
            dated == SelectSeq(Aapl(byDate), LAMBDA p : p.date = last.req.asOf)
            any == Aapl(byAny)
            bar == IF dated # <<>> THEN Head(dated) ELSE Head(any)
        IN  /\ (last.status = 503) <=> (dated = <<>> /\ any = <<>>)
            /\ (dated # <<>> \/ any # <<>>) =>
                  /\ last.status = 200
                  /\ \A i \in 1..Len(last.out.orders) :
                        last.out.orders[i].execPrice \in
                           s_curve_price(bar.close, last.out.orders[i].qty, AdvOrDefault(bar.adv))

\* C5, for the calls that resolve their accounts (an explicit, non-empty list):
\* the statement holds of these.
C5_PriceResolutionExplicitAccounts ==
    (last.op = "rebalance" /\ TruthyList(last.req.accountIds)) => C5_PriceResolution

\* C6: a computed result holds one order per resolved account, in the order of the
\* account list, all AAPL BUY orders with one quantity and one execution price.
C6_UniformBatch ==
    (last.op = "rebalance" /\ last.status = 200) =>
        LET orders == last.out.orders
        IN  /\ ~last.hit =>
                 AccountsOf(orders) =
                    ResolveAccounts(last.req.accountIds, Read(last.seen.clients)).accounts
            /\ \A i \in 1..Len(orders) :
                  /\ orders[i].ticker = "AAPL" /\ orders[i].side = "BUY"
                  /\ orders[i].qty = orders[1].qty
                  /\ orders[i].execPrice = orders[1].execPrice

\* C6 witness: a batch of two orders of a sentiment-tilted quantity, computed from
\* an ingested bar of the as-of date and priced above its close of 1.39, its
\* orders stamped at different seconds.
C6_Witness ==
    /\ last.op = "rebalance" /\ last.status = 200 /\ ~last.hit
    /\ Len(last.out.orders) = 2
    /\ last.out.orders[1].accountId # last.out.orders[2].accountId
    /\ last.req.asOf = D2 /\ last.out.orders[1].qty = 8
    /\ last.out.orders[2].execPrice > 13900
    /\ last.out.orders[1].ts < last.out.orders[2].ts

\* C7 (as claimed): orders are built for exactly the explicit accountIds list when
\* the request carries one, else for every client of the provider.
C7_AccountResolution ==
    (last.op = "rebalance" /\ ~last.hit /\ last.status # 503) =>
        /\ last.status = 200
        /\ AccountsOf(last.out.orders) =
              (IF last.req.accountIds # None THEN last.req.accountIds[1]
               ELSE ClientIds(STUB_CLIENTS))

\* C8 (as claimed): a key written to REBALANCE_RESULTS or INGESTED_CHECKSUMS
\* stays, with the value first stored under it, over every step.
C8_WriteOnce ==
    [][/\ \A k \in DOMAIN REBALANCE_RESULTS :
             k \in DOMAIN REBALANCE_RESULTS' /\ REBALANCE_RESULTS'[k] = REBALANCE_RESULTS[k]
       /\ \A k \in DOMAIN INGESTED_CHECKSUMS :
             k \in DOMAIN INGESTED_CHECKSUMS' /\ INGESTED_CHECKSUMS'[k] = INGESTED_CHECKSUMS[k]]_vars

\* C8, the part that holds: no key is removed from either store, and a key of
\* INGESTED_CHECKSUMS keeps its value.
C8_KeysStay ==
    [][/\ DOMAIN REBALANCE_RESULTS \subseteq DOMAIN REBALANCE_RESULTS'
       /\ \A k \in DOMAIN INGESTED_CHECKSUMS :
             k \in DOMAIN INGESTED_CHECKSUMS' /\ INGESTED_CHECKSUMS'[k] = INGESTED_CHECKSUMS[k]]_vars

\* C9 (as claimed): when an upload returns or fails, either all five fixture lists
\* hold exactly the records of the archive or all five are as the upload found
\* them.
C9_BulkReplacement ==
    [][Served("ingest") =>
          LET arch == ArchiveOf(last'.req.sha)
          IN  \/ fixtures' = last'.before
              \/ fixtures' = [i \in 1..Len(FileOrder) |-> arch.files[i].rows]]_vars

\* C10 (as claimed): a buy is priced at or above the reference close, a sell at or
\* below it, and the price is within 0.2% of the reference close.
C10_ImpactSignAndBound ==
    (calc.done /\ calc.qty # 0) =>
        LET p == calc.price * SubTick
            dev == IF p < calc.close THEN calc.close - p ELSE p - calc.close
        IN  /\ calc.qty > 0 => p >= calc.close
            /\ calc.qty < 0 => p <= calc.close
            /\ dev * 500 <= calc.close

\* C10 (amended): a buy is priced at or above the reference close rounded to 4
\* decimals, a sell at or below it, and the price is within 0.2% of the reference
\* close plus half a unit of the fourth decimal.
C10_ImpactSignAndBoundRounded ==
    (calc.done /\ calc.qty # 0) =>
        LET p == calc.price * SubTick
            dev == IF p < calc.close THEN calc.close - p ELSE p - calc.close
            c4 == Round4(calc.close, FALSE)
        IN  /\ calc.qty > 0 => calc.price >= c4
            /\ calc.qty < 0 => calc.price <= c4
            /\ 2 * ((dev * 500) - calc.close) <= 500 * SubTick

\* C10 witness: a sell priced more than 0.2% below a reference close, by the
\* rounding to 4 decimals alone.
C10_Witness ==
    /\ calc.done /\ calc.qty < 0
    /\ calc.price < Round4(calc.close, FALSE)
    /\ (calc.close - calc.price * SubTick) * 500 > calc.close

\* C11 (as claimed): with a quantity of 0 the price is exactly the reference close
\* rounded to 4 decimals.
C11_ZeroQuantity ==
    (calc.done /\ calc.qty = 0) => calc.price = Round4(calc.close, FALSE)

\* The traversal of the claim: the pages visited from a cursor on, passing each
\* returned nextCursor back, for at most fuel further calls.
RECURSIVE Traverse(_, _, _, _)
Traverse(clients, limit, cursor, fuel) ==
    LET r == list_clients(clients, limit, cursor)
    IN  IF r.raised THEN [ended |-> FALSE, raised |-> TRUE, visited |-> <<>>]
        ELSE IF r.nextCursor = None THEN [ended |-> TRUE, raised |-> FALSE, visited |-> r.items]
        ELSE IF fuel = 0 THEN [ended |-> FALSE, raised |-> FALSE, visited |-> r.items]
        ELSE LET rest == Traverse(clients, limit, r.nextCursor, fuel - 1)
             IN  [ended |-> rest.ended, raised |-> rest.raised,
                  visited |-> r.items \o rest.visited]

\* the page of the claim: the clients at the indices [start, start+limit)
PageOf(clients, start, limit) ==
    [i \in 1..(Min(start + limit, Len(clients)) - Min(start, Len(clients))) |->
        clients[start + i]]

\* C12 (as claimed): a call returns the clients at [start, start+limit), start the
\* number of the cursor or 0 without one, and a nextCursor of str(start+limit), None
\* exactly when the slice reaches the end; and the traversal that starts without a
\* cursor visits every client once, in list order, and ends with nextCursor None.
C12_Pagination ==
    (page.done /\ (page.cursor = None \/ IsDigit(page.cursor[1]))) =>
        LET start == IF page.cursor = None THEN 0 ELSE ParseInt(page.cursor[1])
            walk == Traverse(STUB_CLIENTS, page.limit, None, Len(STUB_CLIENTS))
        IN  /\ ~page.raised
            /\ page.items = PageOf(STUB_CLIENTS, start, page.limit)
            /\ page.nextCursor = (IF start + page.limit >= Len(STUB_CLIENTS) THEN None
                                  ELSE Some(IntToStr(start + page.limit)))
            /\ page.cursor = None => (walk.ended /\ walk.visited = STUB_CLIENTS)

\* C12, for the calls that carry a cursor of digits and a limit that is not
\* negative: the page and its nextCursor are as claimed, and with a limit of at
\* least 1 the traversal from the cursor "0" visits every client once, in list
\* order, and ends.
C12_PaginationFromZero ==
    (page.done /\ page.cursor # None /\ IsDigit(page.cursor[1]) /\ page.limit >= 0) =>
        LET start == ParseInt(page.cursor[1])
            walk == Traverse(STUB_CLIENTS, page.limit, Some(<<"0">>), Len(STUB_CLIENTS))
        IN  /\ ~page.raised
            /\ page.items = PageOf(STUB_CLIENTS, start, page.limit)
            /\ page.nextCursor = (IF start + page.limit >= Len(STUB_CLIENTS) THEN None
                                  ELSE Some(IntToStr(start + page.limit)))
            /\ page.limit >= 1 => (walk.ended /\ walk.visited = STUB_CLIENTS)

\* the first AAPL record of the sentiment list, as an Optional
FirstAaplSentiment(sentiment) ==
    LET aapl == SelectSeq(sentiment, LAMBDA r : r.ticker = "AAPL")
    IN  IF aapl = <<>> THEN None ELSE Some(Head(aapl))

\* C13: every order of every result has a quantity of at least 1, and the shared
\* quantity of a computed batch is an integer nearest to
\* 10 * (1 + sentimentWeight * tilt), raised to 1 when it is below, with
\* tilt = (score - 0.5) * 2 of the first AAPL record among the sentiment records
\* the call's query examined, or 0 without one.  x is that product in thousandths
\* of a share.
C13_OrderSizing ==
    (last.op = "rebalance" /\ last.status = 200) =>
        /\ \A i \in 1..Len(last.out.orders) : last.out.orders[i].qty >= 1
        /\ (~last.hit /\ last.out.orders # <<>>) =>
              LET rec == FirstAaplSentiment(Read(last.seen.sentiment))
                  tilt == IF rec = None THEN 0 ELSE 2 * rec[1].score - 100
                  x == 10000 + last.req.sentimentWeight * tilt
                  q == last.out.orders[1].qty
                  off == IF 1000 * q > x THEN 1000 * q - x ELSE x - 1000 * q
              IN  \/ q = 1 /\ x <= 1500
                  \/ q > 1 /\ off <= 500

\* C13 witness: a computed batch whose quantity was raised to 1: the most negative
\* tilt of an ingested score of 0 under a sentimentWeight of 1 rounds to 0 shares.
C13_Witness ==
    /\ last.op = "rebalance" /\ last.status = 200 /\ ~last.hit
    /\ Len(last.out.orders) = 2 /\ last.out.orders[2].qty = 1
    /\ FirstAaplSentiment(Read(last.seen.sentiment)) # None
    /\ 10000 + last.req.sentimentWeight
                  * (2 * FirstAaplSentiment(Read(last.seen.sentiment))[1].score - 100) <= 500

\* C14 (as claimed): under one key orders are computed and stored at most once,
\* and all the requests that carry the key return the same requestId and the same
\* orders.
C14_AtMostOncePerKey ==
    /\ \A k \in DOMAIN writes : writes[k] <= 1
    /\ \A k \in DOMAIN returned : \A r1, r2 \in returned[k] : r1 = r2

\* C15 (as claimed): of the ack calls of one requestId exactly one answers
\* duplicate = false, all others answer duplicate = true.
C15_AtMostOnceAck ==
    \A rid \in DOMAIN ackCount : ackCount[rid].firsts = 1

\* the records of an archive, list by list
RowsOf(arch) == [i \in 1..Len(FileOrder) |-> arch.files[i].rows]

\* C16 (as claimed): the provider queries of a rebalance request answered while an
\* upload is in progress all examined one complete dataset, the one the upload
\* found or the one of its archive, and the request fails with 503 only when that
\* dataset has no AAPL price.
C16_AtomicDatasetSwap ==
    \A u \in 1..Len(threads) :
        (/\ threads[u].op = "ingest"
         /\ last.op = "rebalance" /\ ~last.hit /\ last.status \in {200, 503}) =>
            \E ds \in {threads[u].loc.before, RowsOf(threads[u].in.arch)} :
                /\ last.seen.dated # None => last.seen.dated[1] = ds[4]
                /\ last.seen.any # None => last.seen.any[1] = ds[4]
                /\ last.seen.sentiment # None => last.seen.sentiment[1] = ds[5]
                /\ last.status = 503 => Aapl(ds[4]) = <<>>

\* the dedup key of an upload: the header when one is supplied (an empty header
\* counts as none), else the checksum of the content
DedupKey(req) == IF req.header # None /\ req.header[1] # "" THEN req.header[1] ELSE req.sha

\* C17: an upload whose dedup key is registered answers with the datasetVersion
\* stored under the key, marks the answer idempotent and leaves the five fixture
\* lists and INGESTED_CHECKSUMS unchanged, whatever the archive holds; and no step
\* writes a registered key again: only the answer of an upload registers a key,
\* one that was not there, and the version under a registered key stays.
C17_IngestShortCircuit ==
    [][/\ Served("ingest") =>
             (DedupKey(last'.req) \in DOMAIN INGESTED_CHECKSUMS =>
                 /\ last'.status = 200 /\ last'.out.idempotent
                 /\ last'.out.datasetVersion = INGESTED_CHECKSUMS[DedupKey(last'.req)]
                 /\ UNCHANGED <<fixtures, INGESTED_CHECKSUMS>>
                 /\ fixtures = last'.before)
       /\ \A k \in DOMAIN INGESTED_CHECKSUMS' :
             IF k \in DOMAIN INGESTED_CHECKSUMS
             THEN INGESTED_CHECKSUMS'[k] = INGESTED_CHECKSUMS[k]
             ELSE /\ Served("ingest") /\ k = DedupKey(last'.req)
                  /\ last'.status = 200 /\ ~last'.hit]_vars

\* C17 witness: an archive without the required files, uploaded under a header
\* key that another archive registered at an earlier second, was answered with
\* the stored version.
C17_Witness ==
    /\ last.op = "ingest" /\ last.hit /\ last.status = 200
    /\ last.req.sha = ZipNoSentiment.sha /\ last.req.header = Some("i1")
    /\ last.out.datasetVersion < DatasetVersion(now)
    /\ STUB_CLIENTS # StubFixtures[1]

\* C18: the answer 503 of a rebalance call leaves the fixtures and the three
\* stores unchanged, and the failure is not cached: the store holds only results
\* that were returned, and a call under a key that failed with 503 and under
\* which no result was returned is a miss, answered by a computation on the lists
\* its queries read (a fresh result once an AAPL price is ingested).
C18_FailureNotCached ==
    [][/\ Served("rebalance") =>
             /\ last'.status = 503 => UNCHANGED <<fixtures, stores>>
             /\ (/\ Truthy(last'.key) /\ last'.key[1] \in failed
                 /\ last'.key[1] \notin DOMAIN returned) =>
                    /\ ~last'.hit
                    /\ [status |-> last'.status, out |-> last'.out, queries |-> last'.queries]
                          \in Recomputed(last')
       /\ \A k \in DOMAIN REBALANCE_RESULTS' :
             k \in DOMAIN returned' /\ REBALANCE_RESULTS'[k] \in returned'[k]]_vars

\* C18 witness: under a key that failed with 503 a later call, made after an
\* upload with an AAPL price was registered, has computed and stored a result.
C18_Witness ==
    /\ last.op = "rebalance" /\ last.status = 200 /\ ~last.hit
    /\ Truthy(last.key) /\ last.key[1] \in failed
    /\ Len(last.out.orders) = 2
    /\ INGESTED_CHECKSUMS # <<>> /\ last.seen.dated = Some(ZipFull.files[4].rows)
    /\ REBALANCE_RESULTS[last.key[1]] = last.out
    /\ returned[last.key[1]] = {last.out}

\* C19 (as claimed): a computation never receives the requestId of a result that
\* an earlier computation stored, and an ack answers duplicate = true only for a
\* response that was itself acknowledged before.
C19_RequestIdsSeparate ==
    [][/\ (Served("rebalance") /\ last'.status = 200 /\ ~last'.hit) =>
             \A k \in DOMAIN REBALANCE_RESULTS :
                 REBALANCE_RESULTS[k].requestId # last'.out.requestId
       /\ Served("ack") => (last'.out.duplicate => last'.req.resp \in acknowledged)]_vars

====
